---- MODULE Spec2Model ----
(***************************************************************************)
(* Voice-AI backend: one socket.io session per client, a Deepgram          *)
(* transcription connection per call, and per final transcript one turn    *)
(* (handleUserMessage) that streams LLM text through a sentence detector   *)
(* into a sentence queue drained by one processAudioQueue worker.          *)
(*                                                                         *)
(* Every action is one run-to-completion step of the Node.js event loop:   *)
(* the code between two awaits.  Text is a sequence of one-character       *)
(* strings.                                                                *)
(***************************************************************************)
EXTENDS Integers, Sequences, FiniteSets, TLC

\* ------------------------------------------------------------------ bounds
MaxTurns == 2        \* final transcripts (turns) in one run
MaxCalls == 2        \* call-start events in one run
MaxTtsFailures == 1  \* textToSpeech calls of sentence workers that reject in one run
MaxTicks == 1        \* advances of the clock in one run
MaxEvents == 3       \* call-starts, final transcripts and clock advances in one run

Sockets == {"s1", "s2"}

\* the clients that connect: one in the runs of Spec, both in those of TwoSpec
OneClient == {"s1"}

\* ------------------------------------------------------------------- text
Terminators == {".", "!", "?"}
Whitespace == {" "}
Digits == {"0", "1", "2", "3", "4", "5", "6", "7", "8", "9"}
Abbreviations == {<<"M", "r">>, <<"D", "r">>, <<"v", "s">>, <<"e", "t", "c">>}
MinSentenceLength == 2

RECURSIVE TrimLeft(_)
TrimLeft(s) ==
  IF s # <<>> /\ Head(s) \in Whitespace THEN TrimLeft(Tail(s)) ELSE s

RECURSIVE WordBefore(_, _)
\* the run of non-whitespace characters that ends right before position i
WordBefore(buf, i) ==
  IF i <= 1 \/ buf[i - 1] \in Whitespace THEN <<>>
  ELSE Append(WordBefore(buf, i - 1), buf[i - 1])

\* the boundary rule with the bug of not looking for an abbreviation
IsBoundaryNoAbbreviation(buf, start, i) ==
  /\ buf[i] \in Terminators
  /\ ~(i > 1 /\ i < Len(buf) /\ buf[i - 1] \in Digits /\ buf[i + 1] \in Digits)
  /\ (i = Len(buf) \/ buf[i + 1] \in Whitespace)
  /\ Len(TrimLeft(SubSeq(buf, start, i))) >= MinSentenceLength

\* the boundary rule with the bug of waiting for the whitespace after the
\* terminator: the end of the buffer does not count
IsBoundaryNeedsWhitespace(buf, start, i) ==
  /\ buf[i] \in Terminators
  /\ ~(i > 1 /\ i < Len(buf) /\ buf[i - 1] \in Digits /\ buf[i + 1] \in Digits)
  /\ WordBefore(buf, i) \notin Abbreviations
  /\ i < Len(buf) /\ buf[i + 1] \in Whitespace
  /\ Len(TrimLeft(SubSeq(buf, start, i))) >= MinSentenceLength

IsBoundary(buf, start, i) ==
  /\ buf[i] \in Terminators
  /\ ~(i > 1 /\ i < Len(buf) /\ buf[i - 1] \in Digits /\ buf[i + 1] \in Digits)
  /\ WordBefore(buf, i) \notin Abbreviations
  /\ (i = Len(buf) \/ buf[i + 1] \in Whitespace)
  /\ Len(TrimLeft(SubSeq(buf, start, i))) >= MinSentenceLength

RECURSIVE Scan(_, _, _, _)
\* re-scan buf from the last confirmed boundary (start), cursor at i
Scan(buf, start, i, acc) ==
  IF i > Len(buf)
    THEN [sentences |-> acc, buffer |-> SubSeq(buf, start, Len(buf))]
  ELSE IF IsBoundary(buf, start, i)
    THEN Scan(buf, i + 1, i + 1, Append(acc, TrimLeft(SubSeq(buf, start, i))))
  ELSE Scan(buf, start, i + 1, acc)

\* addChunk with the bug of scanning the fragment without the retained tail
addChunkForgetsTail(buffer, fragment) == Scan(fragment, 1, 1, <<>>)

\* SentenceDetector.addChunk: the sentences completed by the fragment and
\* the retained tail
addChunk(buffer, fragment) == Scan(buffer \o fragment, 1, 1, <<>>)

\* hasIncomplete with the bug of counting a whitespace-only buffer
hasIncompleteUntrimmed(buffer) == buffer # <<>>

\* SentenceDetector.hasIncomplete
hasIncomplete(buffer) == TrimLeft(buffer) # <<>>

\* SentenceDetector.getRemainder: returns the retained buffer and clears it
getRemainder(buffer) == [text |-> buffer, buffer |-> <<>>]

\* ----------------------------------------------------------- environment
GreetingText == <<"H", "e", "y">>
UserTexts == {<<"h", "i">>}

\* Responses the LLM may stream, as sequences of fragments:
\*   two sentences in the first fragment and an unterminated tail,
\*   one sentence followed by white space only,
\*   a single unterminated fragment, and the empty stream.
Streams ==
  { << <<"a", ".", " ", "b", ".", " ">>, <<"c">> >>,
    << <<"a", ".", " ">> >>,
    << <<"a">> >>,
    << >> }

\* the stale-session sweep: its period and the idle time after which a
\* session is removed, in milliseconds
SweepEveryMs == 5 * 60 * 1000
StaleMs == 30 * 60 * 1000

\* the clock is observed at sweep times: it starts at the first sweep and
\* advances by seven periods, the first six of which cannot find stale a
\* session that was active at the previous observation
StartMs == SweepEveryMs
TickMs == 7 * SweepEveryMs

VARIABLES
  lab,             \* the call of a service function followed on its own, if any
  now,             \* Date.now()
  env,             \* process configuration, fixed at start-up
  sock,            \* socket.io socket of each client
  activeSessions,  \* keys of the activeSessions Map
  session,         \* the session object created by the connection handler
  calls,           \* one entry per call-start: its DeepgramService and continuation
  turns,           \* one entry per handleUserMessage invocation
  out              \* events emitted to each socket outside of turns

vars == <<lab, now, env, sock, activeSessions, session, calls, turns, out>>

\* call-starts, final transcripts and clock advances so far
Events == Len(calls) + Len(turns) + (now - StartMs) \div TickMs

\* the session object built by the connection handler
NewSession ==
  [conversationHistory |-> <<>>, deepgram |-> 0, isCallActive |-> FALSE,
   lastActivity |-> now]

\* no session object: the handler has not run or could not build one
NoSession ==
  [conversationHistory |-> <<>>, deepgram |-> 0, isCallActive |-> FALSE,
   lastActivity |-> 0]

\* no service function is followed on its own
NoLab == [op |-> "none"]

Init ==
  /\ lab = NoLab
  /\ now = StartMs
  /\ env \in [prerecordedGreeting : BOOLEAN, servicesOk : BOOLEAN,
              deepgramKey : BOOLEAN]
  /\ sock = [s \in Sockets |-> IF s \in OneClient THEN "new" ELSE "absent"]
  /\ activeSessions = {}
  /\ session = [s \in Sockets |-> NoSession]
  /\ calls = <<>>
  /\ turns = <<>>
  /\ out = [s \in Sockets |-> <<>>]

\* socket.emit: socket.io discards packets written to a closed socket
Emit(s, log, e) == IF sock[s] = "open" THEN Append(log, e) ELSE log

\* --------------------------------------------------------------- sessions
\* Connect with the bug of a catch that reports the configuration error and
\* does not return: the handlers are registered all the same
ConnectWithoutReturn(s) ==
  /\ sock[s] = "new"
  /\ sock' = [sock EXCEPT ![s] = "open"]
  /\ IF env.servicesOk
       THEN /\ session' = [session EXCEPT ![s] = NewSession]
            /\ activeSessions' = activeSessions \cup {s}
            /\ out' = out
       ELSE /\ out' = [out EXCEPT ![s] = Append(@, "error:Server configuration error")]
            /\ UNCHANGED <<session, activeSessions>>
  /\ UNCHANGED <<lab, now, env, calls, turns>>

\* io.on('connection'): build the session and register it, or report the
\* configuration error and register neither the session nor any handler
Connect(s) ==
  /\ sock[s] = "new"
  /\ IF env.servicesOk
       THEN /\ sock' = [sock EXCEPT ![s] = "open"]
            /\ session' = [session EXCEPT ![s] = NewSession]
            /\ activeSessions' = activeSessions \cup {s}
            /\ out' = out
       ELSE /\ sock' = [sock EXCEPT ![s] = "rejected"]
            /\ out' = [out EXCEPT ![s] = Append(@, "error:Server configuration error")]
            /\ UNCHANGED <<session, activeSessions>>
  /\ UNCHANGED <<lab, now, env, calls, turns>>

\* DeepgramService.disconnect applied to one service: finish() the
\* connection if there is one and forget it.  A connection finished after it
\* opened may still deliver its last transcripts; one finished before it
\* opened ("aborted") delivers nothing.
DgDisconnect(c) ==
  IF c.conn = "open" THEN [c EXCEPT !.conn = "finished"]
  ELSE IF c.conn = "connecting" THEN [c EXCEPT !.conn = "aborted"]
  ELSE c

\* turns of session s that are still running (handler or worker not finished)
Running(tr) == tr.pc \in {"stream", "sleep"} \/ tr.wpc \in {"tts", "sleep"}

\* observation only: each running turn of s remembers that the call or the
\* connection ended while it ran
MarkEnded(s) ==
  [t \in DOMAIN turns |->
     IF turns[t].owner = s /\ Running(turns[t]) /\ turns[t].ended = "no"
       THEN [turns[t] EXCEPT !.ended =
               IF turns[t].wpc = "tts"
                    /\ Len(turns[t].sentenceQueue) > turns[t].processedCount
                 THEN "busy" ELSE "idle"]
       ELSE turns[t]]

\* socket.on('call-start'), up to its first await
CallStart(s) ==
  /\ sock[s] = "open"
  /\ Len(calls) < MaxCalls /\ Events < MaxEvents
  /\ IF env.deepgramKey
       THEN /\ calls' = Append(calls, [owner |-> s, conn |-> "connecting", pc |-> "connect"])
            /\ session' = [session EXCEPT ![s].isCallActive = TRUE,
                                          ![s].deepgram = Len(calls) + 1]
            /\ out' = out
       ELSE \* new DeepgramService() throws: caught, session.deepgram not assigned
            /\ calls' = Append(calls, [owner |-> s, conn |-> "none", pc |-> "failed"])
            /\ session' = [session EXCEPT ![s].isCallActive = TRUE]
            /\ out' = [out EXCEPT ![s] = Emit(s, @, "error:Failed to start call")]
  /\ UNCHANGED <<lab, now, env, sock, activeSessions, turns>>

\* the Deepgram connection opens: connect() resolves and call-start goes on
\* to the greeting
DgOpen(c) ==
  /\ c \in DOMAIN calls
  /\ calls[c].conn = "connecting" /\ calls[c].pc = "connect"
  /\ LET s == calls[c].owner IN
       /\ session' = [session EXCEPT ![s].conversationHistory =
                        Append(@, [role |-> "assistant", content |-> GreetingText])]
       /\ IF env.prerecordedGreeting
            THEN /\ out' = [out EXCEPT ![s] =
                      Emit(s, Emit(s, Emit(s, @, "status:Connected"),
                                   "ai-response:greeting"), "audio-response:greeting")]
                 /\ calls' = [calls EXCEPT ![c].conn = "open", ![c].pc = "done"]
            ELSE /\ out' = [out EXCEPT ![s] =
                      Emit(s, Emit(s, @, "status:Connected"), "ai-response:greeting")]
                 /\ calls' = [calls EXCEPT ![c].conn = "open", ![c].pc = "greeting"]
  /\ UNCHANGED <<lab, now, env, sock, activeSessions, turns>>

\* the connection reports an error before it opened: the onError callback
\* runs, connect() rejects and call-start reports the failure
DgError(c) ==
  /\ c \in DOMAIN calls
  /\ calls[c].conn = "connecting" /\ calls[c].pc = "connect"
  /\ calls' = [calls EXCEPT ![c].conn = "failed", ![c].pc = "failed"]
  /\ out' = [out EXCEPT ![calls[c].owner] =
               Emit(calls[c].owner, Emit(calls[c].owner, @, "error:Speech recognition error"),
                    "error:Failed to start call")]
  /\ UNCHANGED <<lab, now, env, sock, activeSessions, session, turns>>

\* the 10 s timer of connect() fires first
DgTimeout(c) ==
  /\ c \in DOMAIN calls
  /\ calls[c].pc = "connect"
  /\ calls' = [calls EXCEPT ![c].pc = "failed"]
  /\ out' = [out EXCEPT ![calls[c].owner] =
               Emit(calls[c].owner, @, "error:Failed to start call")]
  /\ UNCHANGED <<lab, now, env, sock, activeSessions, session, turns>>

\* the greeting's textToSpeech call settles
GreetingResolve(c) ==
  /\ c \in DOMAIN calls
  /\ calls[c].pc = "greeting"
  /\ calls' = [calls EXCEPT ![c].pc = "done"]
  /\ out' = [out EXCEPT ![calls[c].owner] =
               Emit(calls[c].owner, @, "audio-response:greeting")]
  /\ UNCHANGED <<lab, now, env, sock, activeSessions, session, turns>>

GreetingReject(c) ==
  /\ c \in DOMAIN calls
  /\ calls[c].pc = "greeting"
  /\ calls' = [calls EXCEPT ![c].pc = "failed"]
  /\ out' = [out EXCEPT ![calls[c].owner] =
               Emit(calls[c].owner, @, "error:Failed to start call")]
  /\ UNCHANGED <<lab, now, env, sock, activeSessions, session, turns>>

\* call-end events a socket has been answered so far
CallEnds(s) == Cardinality({k \in DOMAIN out[s] : out[s][k] = "status:Call ended"})

\* socket.on('call-end')
CallEnd(s) ==
  /\ sock[s] = "open"
  /\ CallEnds(s) < MaxCalls
  /\ session' = [session EXCEPT ![s].isCallActive = FALSE, ![s].deepgram = 0,
                                ![s].lastActivity = now]
  /\ calls' = IF session[s].deepgram # 0
                THEN [calls EXCEPT ![session[s].deepgram] = DgDisconnect(@)]
                ELSE calls
  /\ out' = [out EXCEPT ![s] = Emit(s, @, "status:Call ended")]
  /\ turns' = MarkEnded(s)
  /\ UNCHANGED <<lab, now, env, sock, activeSessions>>

\* Disconnect with the bug of leaving the session in the registry
DisconnectKeepsEntry(s) ==
  /\ sock[s] \in {"open", "rejected"}
  /\ sock' = [sock EXCEPT ![s] = "closed"]
  /\ IF sock[s] = "open"
       THEN /\ calls' = IF session[s].deepgram # 0
                          THEN [calls EXCEPT ![session[s].deepgram] = DgDisconnect(@)]
                          ELSE calls
            /\ turns' = MarkEnded(s)
            /\ UNCHANGED activeSessions
       ELSE UNCHANGED <<calls, activeSessions, turns>>
  /\ UNCHANGED <<lab, now, env, session, out>>

\* socket.on('disconnect'); a socket whose session could not be built has
\* no handler
Disconnect(s) ==
  /\ sock[s] \in {"open", "rejected"}
  /\ sock' = [sock EXCEPT ![s] = "closed"]
  /\ IF sock[s] = "open"
       THEN /\ calls' = IF session[s].deepgram # 0
                          THEN [calls EXCEPT ![session[s].deepgram] = DgDisconnect(@)]
                          ELSE calls
            /\ activeSessions' = activeSessions \ {s}
            /\ turns' = MarkEnded(s)
       ELSE UNCHANGED <<calls, activeSessions, turns>>
  /\ UNCHANGED <<lab, now, env, session, out>>

\* time passes
Tick ==
  /\ now < StartMs + MaxTicks * TickMs /\ Events < MaxEvents
  /\ now' = now + TickMs
  /\ UNCHANGED <<lab, env, sock, activeSessions, session, calls, turns, out>>

\* the condition under which the sweep removes a registered session
Stale(s) ==
  /\ ~session[s].isCallActive
  /\ session[s].lastActivity # 0
  /\ now - session[s].lastActivity > StaleMs

\* the sweep's disconnect of the services of the sessions it removes
RECURSIVE SweepCalls(_, _)
SweepCalls(cs, c) ==
  IF c = 0 THEN cs
  ELSE SweepCalls(
         IF \E s \in activeSessions : Stale(s) /\ session[s].deepgram = c
           THEN [cs EXCEPT ![c] = DgDisconnect(@)] ELSE cs,
         c - 1)

\* the setInterval callback: remove every stale session
Sweep ==
  /\ activeSessions' = {s \in activeSessions : ~Stale(s)}
  /\ calls' = SweepCalls(calls, Len(calls))
  /\ UNCHANGED <<lab, now, env, sock, session, turns, out>>

\* ------------------------------------------------------------------ turns
\* socket.emit of one of a turn's status, error or completion events
TEmit(tr, e) == [tr EXCEPT !.emitted = @ \cup {<<e, 0>>}]

\* WorkerLoop with the bug of taking the newest queued sentence instead of
\* the next one
WorkerLoopNewestFirst(tr) ==
  IF Len(tr.sentenceQueue) > tr.processedCount
    THEN [tr EXCEPT !.sentence = Len(tr.sentenceQueue), !.processedCount = @ + 1,
                    !.wpc = "tts"]
  ELSE IF tr.complete
    THEN [TEmit(tr, "status:Listening") EXCEPT !.processed = TRUE, !.wpc = "done"]
  ELSE [tr EXCEPT !.wpc = "sleep"]

\* processAudioQueue, from the top of its while (true) to the next await
WorkerLoop(tr) ==
  IF Len(tr.sentenceQueue) > tr.processedCount
    THEN [tr EXCEPT !.sentence = tr.processedCount + 1, !.processedCount = @ + 1,
                    !.wpc = "tts"]
  ELSE IF tr.complete
    THEN [TEmit(tr, "status:Listening") EXCEPT !.processed = TRUE, !.wpc = "done"]
  ELSE [tr EXCEPT !.wpc = "sleep"]

\* processAudioQueue after textToSpeech resolved: emit the audio, loop
AudioReady(tr) ==
  WorkerLoop([tr EXCEPT !.audio = Append(@, tr.sentence)])

\* CatchTtsError with the bug of calling textToSpeech again for the sentence
\* whose call was rejected
CatchTtsErrorRetries(tr) ==
  [tr EXCEPT !.failed = @ \cup {tr.sentence}]

\* CatchTtsError with the bug of a try/catch around the loop instead of
\* inside it: the first rejected call ends the worker
CatchTtsErrorStops(tr) ==
  [tr EXCEPT !.failed = @ \cup {tr.sentence}, !.wpc = "done"]

\* processAudioQueue after textToSpeech rejected: log the error, loop
CatchTtsError(tr) ==
  WorkerLoop([tr EXCEPT !.failed = @ \cup {tr.sentence}])

\* PushSentence with the bug of queueing a sentence without emitting its
\* partial text
PushSentenceNoPartial(tr, sentence) ==
  LET b == [tr EXCEPT !.sentenceQueue = Append(@, sentence)]
  IN IF ~b.isProcessingAudio
       THEN WorkerLoop(TEmit([b EXCEPT !.isProcessingAudio = TRUE],
                             "status:AI is speaking"))
       ELSE b

\* handleUserMessage: emit the sentence's text, queue it, start the worker
\* if it is not started yet
PushSentence(tr, sentence) ==
  LET b == [tr EXCEPT !.partials = Append(@, Len(tr.sentenceQueue) + 1),
                      !.sentenceQueue = Append(@, sentence)]
  IN IF ~b.isProcessingAudio
       THEN WorkerLoop(TEmit([b EXCEPT !.isProcessingAudio = TRUE],
                             "status:AI is speaking"))
       ELSE b

RECURSIVE PushAll(_, _)
PushAll(tr, sentences) ==
  IF sentences = <<>> THEN tr
  ELSE PushAll(PushSentence(tr, Head(sentences)), Tail(sentences))

\* QueueRemainder with the bug of queueing whatever the detector retained,
\* white space included, without asking hasIncomplete
QueueRemainderUnchecked(tr) ==
  LET r == getRemainder(tr.buffer)
      a == IF r.text # <<>>
             THEN [tr EXCEPT !.buffer = r.buffer,
                             !.fullResponse = @ \o r.text,
                             !.partials = Append(@, Len(tr.sentenceQueue) + 1),
                             !.sentenceQueue = Append(@, r.text)]
           ELSE tr
  IN [a EXCEPT !.complete = TRUE]

\* handleUserMessage after the stream ended: queue the remainder (the worker
\* is not started here) and mark the queue complete
QueueRemainder(tr) ==
  LET r == getRemainder(tr.buffer)
      a == IF hasIncomplete(tr.buffer) /\ r.text # <<>>
             THEN [tr EXCEPT !.buffer = r.buffer,
                             !.fullResponse = @ \o r.text,
                             !.partials = Append(@, Len(tr.sentenceQueue) + 1),
                             !.sentenceQueue = Append(@, r.text)]
           ELSE IF hasIncomplete(tr.buffer) THEN [tr EXCEPT !.buffer = r.buffer]
           ELSE tr
  IN [a EXCEPT !.complete = TRUE]

\* the condition of handleUserMessage's wait loop
StillWaiting(tr) == Len(tr.sentenceQueue) > 0 \/ ~tr.processed

\* handleUserMessage at its wait loop: sleep 100 ms again, or append the
\* assistant entry, emit the complete event and return
WaitLoop(t, tr) ==
  IF StillWaiting(tr)
    THEN /\ turns' = [turns EXCEPT ![t] = [tr EXCEPT !.pc = "sleep"]]
         /\ UNCHANGED session
    ELSE /\ turns' = [turns EXCEPT ![t] =
                [TEmit(tr, "ai-response:complete") EXCEPT !.pc = "done",
                   !.asstAt = Len(session[tr.owner].conversationHistory) + 1]]
         /\ session' = [session EXCEPT ![tr.owner].conversationHistory =
                          Append(@, [role |-> "assistant", content |-> tr.fullResponse])]

\* NewTurn with the bug of a detector kept across turns: the new turn
\* starts with what the previous turn left in the buffer
NewTurnKeepsDetector(s, text, stream, before) ==
  TEmit([owner |-> s, userMessage |-> text, pc |-> "stream", llm |-> stream,
         buffer |-> IF turns = <<>> THEN <<>> ELSE turns[Len(turns)].buffer,
         fullResponse |-> <<>>, sentenceQueue |-> <<>>,
         complete |-> FALSE, processed |-> FALSE, isProcessingAudio |-> FALSE,
         wpc |-> "none", processedCount |-> 0, sentence |-> 0,
         partials |-> <<>>, audio |-> <<>>, failed |-> {},
         emitted |-> {<<"transcript", 0>>}, ended |-> "no",
         before |-> before, asstAt |-> 0],
        "status:AI is thinking")

\* handleUserMessage up to the first await of the LLM stream: the turn's
\* locals, after the user entry was appended to history (before) and the
\* 'AI is thinking' status emitted
NewTurn(s, text, stream, before) ==
  TEmit([owner |-> s, userMessage |-> text, pc |-> "stream", llm |-> stream,
         buffer |-> <<>>, fullResponse |-> <<>>, sentenceQueue |-> <<>>,
         complete |-> FALSE, processed |-> FALSE, isProcessingAudio |-> FALSE,
         wpc |-> "none", processedCount |-> 0, sentence |-> 0,
         partials |-> <<>>, audio |-> <<>>, failed |-> {},
         emitted |-> {<<"transcript", 0>>}, ended |-> "no",
         before |-> before, asstAt |-> 0],
        "status:AI is thinking")

\* Transcript with the bug of one conversation history shared by all the
\* sessions
TranscriptSharedHistory(c, text, stream) ==
  /\ c \in DOMAIN calls
  /\ calls[c].conn \in {"open", "finished"}
  /\ Len(turns) < MaxTurns /\ Events < MaxEvents
  /\ LET s == calls[c].owner IN
       /\ session' = [o \in Sockets |->
                        [session[o] EXCEPT !.conversationHistory =
                           Append(@, [role |-> "user", content |-> text])]]
       /\ turns' = Append(turns,
                          NewTurn(s, text, stream, session[s].conversationHistory))
  /\ UNCHANGED <<lab, now, env, sock, activeSessions, calls, out>>

\* a final transcript arrives on the Deepgram connection of call c: the
\* onTranscript callback emits it and calls handleUserMessage
Transcript(c, text, stream) ==
  /\ c \in DOMAIN calls
  /\ calls[c].conn \in {"open", "finished"}
  /\ Len(turns) < MaxTurns /\ Events < MaxEvents
  /\ LET s == calls[c].owner IN
       /\ session' = [session EXCEPT ![s].conversationHistory =
                        Append(@, [role |-> "user", content |-> text])]
       /\ turns' = Append(turns,
                          NewTurn(s, text, stream, session[s].conversationHistory))
  /\ UNCHANGED <<lab, now, env, sock, activeSessions, calls, out>>

\* LLMChunk with the bug of awaiting the synthesis of the queued sentences
\* before the next fragment is read
LLMChunkAfterSynthesis(t) ==
  /\ t \in DOMAIN turns
  /\ turns[t].pc = "stream" /\ turns[t].llm # <<>>
  /\ turns[t].wpc # "tts"
  /\ LET tr == turns[t]
         d == addChunk(tr.buffer, Head(tr.llm))
     IN turns' = [turns EXCEPT ![t] =
          PushAll([tr EXCEPT !.llm = Tail(@), !.buffer = d.buffer,
                             !.fullResponse = @ \o Head(tr.llm)],
                  d.sentences)]
  /\ UNCHANGED <<lab, now, env, sock, activeSessions, session, calls, out>>

\* the LLM stream yields its next fragment
LLMChunk(t) ==
  /\ t \in DOMAIN turns
  /\ turns[t].pc = "stream" /\ turns[t].llm # <<>>
  /\ LET tr == turns[t]
         d == addChunk(tr.buffer, Head(tr.llm))
     IN turns' = [turns EXCEPT ![t] =
          PushAll([tr EXCEPT !.llm = Tail(@), !.buffer = d.buffer,
                             !.fullResponse = @ \o Head(tr.llm)],
                  d.sentences)]
  /\ UNCHANGED <<lab, now, env, sock, activeSessions, session, calls, out>>

\* the LLM stream ends: remainder, complete flag, first test of the wait loop
LLMEnd(t) ==
  /\ t \in DOMAIN turns
  /\ turns[t].pc = "stream" /\ turns[t].llm = <<>>
  /\ WaitLoop(t, QueueRemainder(turns[t]))
  /\ UNCHANGED <<lab, now, env, sock, activeSessions, calls, out>>

\* the LLM stream throws: the catch of handleUserMessage
LLMError(t) ==
  /\ t \in DOMAIN turns
  /\ turns[t].pc = "stream"
  /\ turns' = [turns EXCEPT ![t] =
       [TEmit(TEmit(@, "error:Failed to generate response"), "status:Error")
          EXCEPT !.pc = "failed"]]
  /\ UNCHANGED <<lab, now, env, sock, activeSessions, session, calls, out>>

\* the 100 ms timer of the wait loop fires
WaitTimer(t) ==
  /\ t \in DOMAIN turns
  /\ turns[t].pc = "sleep"
  /\ WaitLoop(t, turns[t])
  /\ UNCHANGED <<lab, now, env, sock, activeSessions, calls, out>>

\* the worker's textToSpeech call resolves
TTSResolve(t) ==
  /\ t \in DOMAIN turns
  /\ turns[t].wpc = "tts"
  /\ turns' = [turns EXCEPT ![t] = AudioReady(@)]
  /\ UNCHANGED <<lab, now, env, sock, activeSessions, session, calls, out>>

\* rejected textToSpeech calls of all sentence workers so far
RECURSIVE TtsFailures(_)
TtsFailures(n) ==
  IF n = 0 THEN 0 ELSE Cardinality(turns[n].failed) + TtsFailures(n - 1)

\* the worker's textToSpeech call rejects
TTSReject(t) ==
  /\ t \in DOMAIN turns
  /\ turns[t].wpc = "tts"
  /\ TtsFailures(Len(turns)) < MaxTtsFailures
  /\ turns' = [turns EXCEPT ![t] = CatchTtsError(@)]
  /\ UNCHANGED <<lab, now, env, sock, activeSessions, session, calls, out>>

\* the worker's 50 ms timer fires
WorkerTimer(t) ==
  /\ t \in DOMAIN turns
  /\ turns[t].wpc = "sleep"
  /\ turns' = [turns EXCEPT ![t] = WorkerLoop(@)]
  /\ UNCHANGED <<lab, now, env, sock, activeSessions, session, calls, out>>

\* ---------------------------------------------------------- specification
Client ==
  \/ \E s \in Sockets : Connect(s)
  \/ \E s \in Sockets : CallStart(s)
  \/ \E s \in Sockets : CallEnd(s)
  \/ \E s \in Sockets : Disconnect(s)

Deepgram ==
  \/ \E c \in 1..MaxCalls : DgOpen(c)
  \/ \E c \in 1..MaxCalls : DgError(c)
  \/ \E c \in 1..MaxCalls : DgTimeout(c)
  \/ \E c \in 1..MaxCalls, text \in UserTexts, stream \in Streams :
        Transcript(c, text, stream)

Pipeline ==
  \/ \E c \in 1..MaxCalls : GreetingResolve(c)
  \/ \E c \in 1..MaxCalls : GreetingReject(c)
  \/ \E t \in 1..MaxTurns : LLMChunk(t)
  \/ \E t \in 1..MaxTurns : LLMEnd(t)
  \/ \E t \in 1..MaxTurns : LLMError(t)
  \/ \E t \in 1..MaxTurns : WaitTimer(t)
  \/ \E t \in 1..MaxTurns : TTSResolve(t)
  \/ \E t \in 1..MaxTurns : TTSReject(t)
  \/ \E t \in 1..MaxTurns : WorkerTimer(t)

Timers == Tick \/ Sweep

Next == Client \/ Deepgram \/ Pipeline \/ Timers

Spec == Init /\ [][Next]_vars

\* two clients, with every service configured and the greeting prerecorded
TwoInit ==
  /\ lab = NoLab
  /\ now = StartMs
  /\ env = [prerecordedGreeting |-> TRUE, servicesOk |-> TRUE, deepgramKey |-> TRUE]
  /\ sock = [s \in Sockets |-> "new"]
  /\ activeSessions = {}
  /\ session = [s \in Sockets |-> NoSession]
  /\ calls = <<>>
  /\ turns = <<>>
  /\ out = [s \in Sockets |-> <<>>]

\* the events of the two sessions, between two sweeps and with a synthesis
\* service that answers
TwoNext ==
  \/ Client
  \/ Deepgram
  \/ \E t \in 1..MaxTurns : LLMChunk(t)
  \/ \E t \in 1..MaxTurns : LLMEnd(t)
  \/ \E t \in 1..MaxTurns : LLMError(t)
  \/ \E t \in 1..MaxTurns : WaitTimer(t)
  \/ \E t \in 1..MaxTurns : TTSResolve(t)
  \/ \E t \in 1..MaxTurns : WorkerTimer(t)

TwoSpec == TwoInit /\ [][TwoNext]_vars

\* The event loop runs every continuation that is ready, every timer fires,
\* and every LLM stream and synthesis call settles.
FairSpec == Spec /\ WF_vars(Pipeline)

\* ----------------------------------------------------------------- claims
History(s) == session[s].conversationHistory

\* audio-response events emitted for sentence i of a turn
AudioCount(tr, i) == Cardinality({k \in DOMAIN tr.audio : tr.audio[k] = i})

\* the synthesis of sentence i has produced its audio or has failed
Settled(tr, i) == i \in tr.failed \/ AudioCount(tr, i) > 0

\* the token stream ended normally and every queued sentence is settled
Drained(tr) ==
  tr.complete /\ \A i \in DOMAIN tr.sentenceQueue : Settled(tr, i)

\* textToSpeech calls of session s that have not settled yet
TtsInFlight(s) ==
  Cardinality({t \in DOMAIN turns : turns[t].owner = s /\ turns[t].wpc = "tts"})
  + Cardinality({c \in DOMAIN calls : calls[c].owner = s /\ calls[c].pc = "greeting"})

\* turns of session s that consume tokens or synthesize
ActiveTurns(s) ==
  {t \in DOMAIN turns :
     turns[t].owner = s /\ (turns[t].pc = "stream" \/ turns[t].wpc = "tts")}

\* the user entry of a turn is in its session's history, where
\* handleUserMessage appended it
UserEntryPresent(tr) ==
  /\ Len(History(tr.owner)) > Len(tr.before)
  /\ History(tr.owner)[Len(tr.before) + 1] = [role |-> "user", content |-> tr.userMessage]

\* C1: within a turn the audio-response events are emitted in the order in
\* which their sentences were queued, whatever the interleaving of token
\* arrival and synthesis completion.
C1_AudioInQueueOrder ==
  \A t \in DOMAIN turns : \A j, k \in DOMAIN turns[t].audio :
     j < k => turns[t].audio[j] < turns[t].audio[k]

\* a turn that has emitted the audio of three sentences
C1_Witness == \E t \in DOMAIN turns : Len(turns[t].audio) = 3

\* the handler of turn t has nothing left to do: no step of it changes the
\* state any more
HandlerStuck(t) ==
  ~ENABLED <<LLMChunk(t) \/ LLMEnd(t) \/ LLMError(t) \/ WaitTimer(t)>>_vars

\* the worker of a turn will do nothing more: it has finished or was never
\* started
WorkerAtRest(tr) == tr.wpc \in {"done", "none"}

\* C2: a turn whose token stream ended normally and that is not cancelled,
\* once every queued sentence is emitted or has failed, leaves its wait
\* loop, emits the final ai-response (complete: true) and returns: it is
\* never left waiting with nothing more to happen.
C2_TurnSignalsCompletion ==
  \A t \in DOMAIN turns :
     (turns[t].ended = "no" /\ Drained(turns[t]) /\ WorkerAtRest(turns[t]))
       => \/ /\ turns[t].pc = "done"
             /\ <<"ai-response:complete", 0>> \in turns[t].emitted
          \/ ~HandlerStuck(t)

\* C3: a session never has more than one textToSpeech call in flight, the
\* greeting synthesis and the sentence workers of all its turns together.
C3_OneSynthesisInFlight == \A s \in Sockets : TtsInFlight(s) <= 1

\* C4: at most one turn of a session consumes tokens or synthesizes at any
\* time.
C4_OneActiveTurn == \A s \in Sockets : Cardinality(ActiveTurns(s)) <= 1

\* C5: conversationHistory strictly alternates user and assistant roles
\* and, when it is not empty, starts with a user message.
C5_HistoryAlternates ==
  \A s \in Sockets :
     /\ History(s) # <<>> => History(s)[1].role = "user"
     /\ \A k \in 1..(Len(History(s)) - 1) : History(s)[k].role # History(s)[k + 1].role

\* C6: when call-end or disconnect occurs during a turn with one sentence in
\* synthesis and further sentences queued, no synthesis call is issued
\* afterwards and the in-flight result is never emitted as audio-response.
C6_NothingAfterCallEnd ==
  [][\A t \in DOMAIN turns :
       turns[t].ended = "busy" =>
         /\ turns'[t].processedCount = turns[t].processedCount
         /\ turns'[t].audio = turns[t].audio]_vars

\* C7: a turn that is cancelled or that fails leaves conversationHistory as
\* it was before the turn: neither its user entry nor an assistant entry.
C7_FailedTurnLeavesHistory ==
  \A t \in DOMAIN turns :
     (turns[t].pc = "failed" \/ turns[t].ended # "no") =>
        ~UserEntryPresent(turns[t]) /\ turns[t].asstAt = 0

\* C8: a turn that has completed (stream ended, every sentence settled,
\* worker finished, handler with nothing left to do, not cancelled) has
\* appended one user entry followed directly by one assistant entry.
C8_CompletedTurnAppendsPair ==
  \A t \in DOMAIN turns :
     (turns[t].ended = "no" /\ Drained(turns[t]) /\ turns[t].processed
        /\ HandlerStuck(t))
       => /\ UserEntryPresent(turns[t])
          /\ turns[t].asstAt = Len(turns[t].before) + 2
          /\ Len(History(turns[t].owner)) >= turns[t].asstAt
          /\ History(turns[t].owner)[turns[t].asstAt] =
               [role |-> "assistant", content |-> turns[t].fullResponse]

\* C9: every sentence whose synthesis call has settled has exactly one
\* result emitted to the client: its audio, or a per-sentence failure marker.
C9_OneResultPerSentence ==
  \A t \in DOMAIN turns : \A i \in DOMAIN turns[t].sentenceQueue :
     (i < turns[t].processedCount \/ (i = turns[t].processedCount /\ turns[t].wpc # "tts"))
       => AudioCount(turns[t], i)
            + Cardinality({e \in turns[t].emitted : e = <<"audio-failed", i>>}) = 1

\* C10: a synthesis failure for sentence i does not stop the worker: every
\* sentence queued after i is settled, or is being synthesized, or is still
\* to be taken by a worker that runs; none is skipped or abandoned.
C10_WorkerSurvivesFailure ==
  \A t \in DOMAIN turns : \A i \in turns[t].failed :
     \A j \in DOMAIN turns[t].sentenceQueue :
        j > i =>
          \/ Settled(turns[t], j)
          \/ turns[t].wpc = "tts" /\ turns[t].sentence = j
          \/ turns[t].wpc \in {"tts", "sleep"} /\ turns[t].processedCount < j

\* the first sentence failed and the audio of the two after it was emitted
C10_Witness ==
  \E t \in DOMAIN turns : turns[t].failed = {1} /\ turns[t].audio = <<2, 3>>

\* C11: in a non-cancelled turn every queued sentence, detected in the
\* stream or the trailing remainder, has a synthesis call issued for it: a
\* worker that is not running has taken every queued sentence.
C11_EverySentenceSynthesized ==
  \A t \in DOMAIN turns :
     (turns[t].ended = "no" /\ WorkerAtRest(turns[t]))
       => turns[t].processedCount = Len(turns[t].sentenceQueue)

\* C12: when the token stream ends, a remainder that is not empty is queued
\* as the last sentence, behind every sentence detected during the stream,
\* in the step that marks the queue complete; an empty remainder queues
\* nothing; a complete queue receives no further sentence.
C12_RemainderQueuedLast ==
  [][\A t \in DOMAIN turns :
       /\ (~turns[t].complete /\ turns'[t].complete) =>
             turns'[t].sentenceQueue =
               IF hasIncomplete(turns[t].buffer)
                 THEN Append(turns[t].sentenceQueue, turns[t].buffer)
                 ELSE turns[t].sentenceQueue
       /\ turns[t].complete =>
             /\ turns'[t].complete
             /\ turns'[t].sentenceQueue = turns[t].sentenceQueue]_vars

\* a complete queue of two sentences detected in the stream and the
\* remainder behind them
C12_Witness ==
  \E t \in DOMAIN turns :
     /\ turns[t].complete
     /\ turns[t].sentenceQueue = << <<"a", ".">>, <<"b", ".">>, <<" ", "c">> >>

\* C13: the full text of a turn is the concatenation of the fragments
\* received, each exactly once: it grows by the fragment consumed when one
\* is consumed and does not change otherwise.
C13_FullTextIsFragments ==
  [][\A t \in DOMAIN turns :
       turns'[t].fullResponse =
         IF turns'[t].llm # turns[t].llm
           THEN turns[t].fullResponse \o Head(turns[t].llm)
           ELSE turns[t].fullResponse]_vars

C15_CancelledTurnStopsConsuming ==
  [][\A t \in DOMAIN turns :
       turns[t].ended # "no" => turns'[t].llm = turns[t].llm]_vars

\* C16: when the LLM stream fails in mid-turn, the sentences already
\* detected are synthesized and emitted first and the turn is reported as
\* failed after them, with no assistant entry and no complete event: a turn
\* reported as failed has every queued sentence settled.
C16_FailureReportedAfterSentences ==
  \A t \in DOMAIN turns :
     <<"error:Failed to generate response", 0>> \in turns[t].emitted =>
        /\ \A i \in DOMAIN turns[t].sentenceQueue : Settled(turns[t], i)
        /\ turns[t].asstAt = 0
        /\ <<"ai-response:complete", 0>> \notin turns[t].emitted

\* results (audio or failure) of the synthesis calls made for sentence i
ResultCount(tr, i) == AudioCount(tr, i) + (IF i \in tr.failed THEN 1 ELSE 0)

\* C17: each queued sentence gets at most one synthesis call: the call in
\* flight is for the sentence taken last, which has no result yet, and no
\* sentence has more than one result.
C17_OneCallPerSentence ==
  \A t \in DOMAIN turns :
     /\ \A i \in DOMAIN turns[t].sentenceQueue : ResultCount(turns[t], i) <= 1
     /\ turns[t].wpc = "tts" =>
           /\ turns[t].sentence = turns[t].processedCount
           /\ ~Settled(turns[t], turns[t].sentence)

\* the call for the first sentence failed and the second sentence is in
\* synthesis
C17_Witness ==
  \E t \in DOMAIN turns :
     1 \in turns[t].failed /\ turns[t].wpc = "tts" /\ turns[t].sentence = 2

\* the partial ai-response of sentence i of a turn has been emitted
PartialEmitted(tr, i) == \E p \in DOMAIN tr.partials : tr.partials[p] = i

C19_FailedConstructionRegistersNothing ==
  \A s \in Sockets :
     (~env.servicesOk /\ sock[s] \notin {"new", "absent"}) =>
        /\ out[s] = <<"error:Server configuration error">>
        /\ s \notin activeSessions
        /\ session[s] = NoSession
        /\ \A c \in DOMAIN calls : calls[c].owner # s
        /\ \A t \in DOMAIN turns : turns[t].owner # s

\* a client whose session could not be built has connected and gone
C19_Witness ==
  \E s \in Sockets : ~env.servicesOk /\ sock[s] = "closed"

\* sessions the sweep removes in a step: dropped from activeSessions while
\* their socket stays connected
Swept(s) == s \in activeSessions /\ s \notin activeSessions' /\ sock'[s] = sock[s]

\* C20: a session removed by the sweep has no turn in progress when it is
\* removed, its call is not active, and it has been idle for more than 30
\* minutes since lastActivity.
C20_SweepRemovesOnlyIdleSessions ==
  [][\A s \in Sockets :
       Swept(s) =>
         /\ \A t \in DOMAIN turns : turns[t].owner = s => ~Running(turns[t])
         /\ ~session[s].isCallActive
         /\ now - session[s].lastActivity > StaleMs]_vars

\* C21: activeSessions changes only by the insert of a socket at its
\* connection and by a removal at its disconnect or by the sweep of a stale
\* session; every key is a socket that connected and has not disconnected,
\* and a disconnected socket has no entry.
C21_RegistryInsertAndRemove ==
  [][/\ \A s \in activeSessions' \ activeSessions :
          sock[s] = "new" /\ sock'[s] = "open"
     /\ \A s \in activeSessions \ activeSessions' :
          sock'[s] = "closed" \/ (Stale(s) /\ sock'[s] = sock[s])
     /\ \A s \in activeSessions' : sock'[s] = "open"
     /\ \A s \in Sockets : sock'[s] = "closed" => s \notin activeSessions']_vars

\* a client whose session was registered and had a call has disconnected
C21_Witness ==
  \E s \in Sockets :
     /\ sock[s] = "closed" /\ env.servicesOk /\ s \notin activeSessions
     /\ \E c \in DOMAIN calls : calls[c].owner = s

\* socket.on('audio-stream') and DeepgramService.send: a frame received from
\* client s now is forwarded to a transcription connection
AudioForwarded(s) ==
  /\ sock[s] = "open"
  /\ session[s].deepgram # 0 /\ session[s].isCallActive
  /\ calls[session[s].deepgram].conn = "open"

\* call-end or disconnect of s has been processed and no call-start since
CallOver(s) ==
  \/ sock[s] = "open" /\ ~session[s].isCallActive /\ CallEnds(s) > 0
  \/ sock[s] = "closed"

\* C22: after call-end or disconnect has been processed, and until a new
\* call-start, every Deepgram connection of the session has been finished
\* and no audio-stream frame is forwarded to a transcription connection.
C22_TranscriptionReleased ==
  \A s \in Sockets :
     CallOver(s) =>
        /\ \A c \in DOMAIN calls :
              calls[c].owner = s => calls[c].conn \notin {"open", "connecting"}
        /\ ~AudioForwarded(s)

\* C24: the greeting is sent to the client but not saved: no entry of
\* conversationHistory is the greeting, and the first entry of a history
\* that is not empty is a user message.
C24_GreetingNotInHistory ==
  \A s \in Sockets :
     /\ \A k \in DOMAIN History(s) :
           History(s)[k] # [role |-> "assistant", content |-> GreetingText]
     /\ History(s) # <<>> => History(s)[1].role = "user"

\* the vendor's limit on concurrent synthesis requests
CartesiaConcurrencyLimit == 2

\* textToSpeech calls of the whole process that have not settled yet
TtsInFlightTotal ==
  Cardinality({t \in DOMAIN turns : turns[t].wpc = "tts"})
  + Cardinality({c \in DOMAIN calls : calls[c].pc = "greeting"})

\* C26: the number of Cartesia requests in flight in the process never
\* exceeds the vendor's concurrency limit of 2.
C26_WithinVendorLimit == TtsInFlightTotal <= CartesiaConcurrencyLimit

\* ------------------------------------------------- LLMService, on its own
MaxHistory == 4   \* entries of the conversationHistory given to the LLM service

\* the main program before anything happened, while a service function is
\* followed on its own
Idle ==
  /\ now = StartMs
  /\ env = [prerecordedGreeting |-> TRUE, servicesOk |-> TRUE, deepgramKey |-> TRUE]
  /\ sock = [s \in Sockets |-> "new"]
  /\ activeSessions = {}
  /\ session = [s \in Sockets |-> NoSession]
  /\ calls = <<>>
  /\ turns = <<>>
  /\ out = [s \in Sockets |-> <<>>]

Roles == {"user", "assistant", "system"}
Contents == {"x", "y"}

\* the conversation histories the service may be given
Histories ==
  UNION {[1..n -> [role : Roles, content : Contents]] : n \in 0..MaxHistory}

\* the role mapping with the bug of passing the role through unchanged
GeminiRoleUnmapped(role) == role

\* msg.role === 'assistant' ? 'model' : 'user'
GeminiRole(role) == IF role = "assistant" THEN "model" ELSE "user"

\* conversationHistory.slice(0, -1).map(...)
MapHistory(h) ==
  [k \in 1..(IF Len(h) = 0 THEN 0 ELSE Len(h) - 1) |->
     [role |-> GeminiRole(h[k].role), text |-> h[k].content]]

\* streamGeminiResponse / generateGeminiResponse are called with a history
GeminiInit ==
  /\ Idle
  /\ lab \in {[op |-> "gemini", pc |-> "map", conversationHistory |-> h,
               mappedHistory |-> <<>>] : h \in Histories}

\* step 1: drop the last message and map the roles
GeminiMap ==
  /\ lab.op = "gemini" /\ lab.pc = "map"
  /\ lab' = [lab EXCEPT !.mappedHistory = MapHistory(lab.conversationHistory),
                        !.pc = "shift"]
  /\ UNCHANGED <<now, env, sock, activeSessions, session, calls, turns, out>>

\* step 2, one iteration of the while loop: shift a leading 'model' entry
GeminiShift ==
  /\ lab.op = "gemini" /\ lab.pc = "shift"
  /\ Len(lab.mappedHistory) > 0 /\ lab.mappedHistory[1].role = "model"
  /\ lab' = [lab EXCEPT !.mappedHistory = Tail(@)]
  /\ UNCHANGED <<now, env, sock, activeSessions, session, calls, turns, out>>

\* the loop ends and model.startChat is called with mappedHistory
GeminiStartChat ==
  /\ lab.op = "gemini" /\ lab.pc = "shift"
  /\ ~(Len(lab.mappedHistory) > 0 /\ lab.mappedHistory[1].role = "model")
  /\ lab' = [lab EXCEPT !.pc = "startChat"]
  /\ UNCHANGED <<now, env, sock, activeSessions, session, calls, turns, out>>

GeminiNext == GeminiMap \/ GeminiShift \/ GeminiStartChat

GeminiSpec == GeminiInit /\ [][GeminiNext]_vars

MaxFragments == 3     \* fragments fed to one detector
MaxFragmentLen == 2   \* characters of a generated fragment

Alphabet == {"a", "1", ".", " "}

\* "Hello Dr. Smith. How are you?"
DrText ==
  <<"H", "e", "l", "l", "o", " ", "D", "r", ".", " ", "S", "m",
    "i", "t", "h", ".", " ", "H", "o", "w", " ", "a", "r", "e",
    " ", "y", "o", "u", "?">>
DrSentences ==
  << <<"H", "e", "l", "l", "o", " ", "D", "r", ".", " ", "S", "m",
        "i", "t", "h", ".">>,
     <<"H", "o", "w", " ", "a", "r", "e", " ", "y", "o", "u", "?">> >>

\* "Pricing is $29.99 per month."
PriceText ==
  <<"P", "r", "i", "c", "i", "n", "g", " ", "i", "s", " ", "$",
    "2", "9", ".", "9", "9", " ", "p", "e", "r", " ", "m", "o",
    "n", "t", "h", ".">>

\* every fragment of up to MaxFragmentLen characters
Fragments == UNION {[1..n -> Alphabet] : n \in 0..MaxFragmentLen}

RECURSIVE Splits(_, _)
\* the ways of dividing text into n fragments, empty ones included
Splits(text, n) ==
  IF n = 1 THEN {<<text>>}
  ELSE UNION {{<<SubSeq(text, 1, c)>> \o rest :
                 rest \in Splits(SubSeq(text, c + 1, Len(text)), n - 1)} :
              c \in 0..Len(text)}

\* the fragment sequences fed to a detector: every short sequence over the
\* alphabet, the first text cut in two and the second cut in MaxFragments
DetectorInputs ==
  UNION {[1..n -> Fragments] : n \in 0..MaxFragments}
    \cup Splits(DrText, 2)
    \cup Splits(PriceText, MaxFragments)

RECURSIVE Concat(_)
Concat(ss) == IF ss = <<>> THEN <<>> ELSE Head(ss) \o Concat(Tail(ss))

\* new SentenceDetector(), and the fragments that will be fed to it
DetectorInit ==
  /\ Idle
  /\ lab \in {[op |-> "detector", pc |-> "stream", input |-> in, chunks |-> in,
               buffer |-> <<>>, sentences |-> <<>>, remainder |-> <<>>] :
              in \in DetectorInputs}

\* detector.addChunk(chunk) for the next fragment
DetectorAddChunk ==
  /\ lab.op = "detector" /\ lab.pc = "stream" /\ lab.chunks # <<>>
  /\ LET r == addChunk(lab.buffer, Head(lab.chunks))
     IN lab' = [lab EXCEPT !.chunks = Tail(@),
                           !.buffer = r.buffer,
                           !.sentences = @ \o r.sentences]
  /\ UNCHANGED <<now, env, sock, activeSessions, session, calls, turns, out>>

\* end of stream: detector.getRemainder()
DetectorGetRemainder ==
  /\ lab.op = "detector" /\ lab.pc = "stream" /\ lab.chunks = <<>>
  /\ LET r == getRemainder(lab.buffer)
     IN lab' = [lab EXCEPT !.pc = "done",
                           !.remainder = r.text,
                           !.buffer = r.buffer]
  /\ UNCHANGED <<now, env, sock, activeSessions, session, calls, turns, out>>

DetectorNext == DetectorAddChunk \/ DetectorGetRemainder

DetectorSpec == DetectorInit /\ [][DetectorNext]_vars

\* the detector was fed every fragment and asked for its remainder
DetectorDone == lab.op = "detector" /\ lab.pc = "done"

\* what the detector yielded: its sentences, then the remainder if any
Yield ==
  lab.sentences \o (IF lab.remainder = <<>> THEN <<>> ELSE <<lab.remainder>>)

RECURSIVE Rebuilds(_, _, _)
\* text is the sentences in order, each after a run of whitespace that was
\* trimmed from its front, followed by the remainder
Rebuilds(text, sentences, remainder) ==
  IF sentences = <<>> THEN text = remainder
  ELSE LET t == TrimLeft(text)
           s == Head(sentences)
       IN /\ Len(s) <= Len(t)
          /\ SubSeq(t, 1, Len(s)) = s
          /\ Rebuilds(SubSeq(t, Len(s) + 1, Len(t)), Tail(sentences), remainder)

C28_AbbreviationSplitIndependent ==
  (DetectorDone /\ Len(lab.input) = 2 /\ Concat(lab.input) = DrText)
     => Yield = DrSentences

\* the text was cut right after "Dr." and the two sentences came out
C28_Witness ==
  /\ DetectorDone
  /\ Len(lab.input) = 2
  /\ Concat(lab.input) = DrText
  /\ WordBefore(lab.input[1], Len(lab.input[1])) = <<"D", "r">>
  /\ lab.input[1][Len(lab.input[1])] = "."
  /\ Yield = DrSentences

\* C29: "Pricing is $29.99 per month." yields exactly one sentence, however
\* it is divided into fragments: the '.' between the digits is no boundary.
C29_DecimalIsOneSentence ==
  (DetectorDone /\ Concat(lab.input) = PriceText) => Yield = <<PriceText>>

QueuesOf(s, tr) ==
  [t \in {u \in DOMAIN tr : tr[u].owner = s} |-> tr[t].sentenceQueue]

\* the step is an event of session s: its socket, the events emitted to it,
\* one of its calls or one of its turns changes
EventOf(s) ==
  \/ sock'[s] # sock[s]
  \/ out'[s] # out[s]
  \/ \E c \in DOMAIN calls' :
        calls'[c].owner = s /\ (c \notin DOMAIN calls \/ calls'[c] # calls[c])
  \/ \E t \in DOMAIN turns' :
        turns'[t].owner = s /\ (t \notin DOMAIN turns \/ turns'[t] # turns[t])

\* C23: an event of one session (call-start, transcript, turn progress,
\* call-end, disconnect) leaves the conversationHistory, the isCallActive
\* flag and the sentence queues of every other session unchanged.
C23_SessionsIndependent ==
  [][\A s \in Sockets : EventOf(s) =>
        \A o \in Sockets \ {s} :
           /\ session'[o].conversationHistory = session[o].conversationHistory
           /\ session'[o].isCallActive = session[o].isCallActive
           /\ QueuesOf(o, turns') = QueuesOf(o, turns)]_vars

\* both clients are in a call; one of them had a turn that queued a
\* sentence, and the other one's history holds only its greeting
C23_Witness ==
  /\ session["s1"].isCallActive /\ session["s2"].isCallActive
  /\ \E t \in DOMAIN turns : turns[t].owner = "s1" /\ turns[t].sentenceQueue # <<>>
  /\ Len(History("s1")) >= 2
  /\ Len(History("s2")) = 1

\* a fragment that is empty or holds only whitespace
IsBlank(fragment) == \A k \in DOMAIN fragment : fragment[k] \in Whitespace

\* the fragment sequence without its k-th fragment
Remove(chunks, k) == SubSeq(chunks, 1, k - 1) \o SubSeq(chunks, k + 1, Len(chunks))

RECURSIVE RunDetector(_, _, _)
\* a detector with the given buffer is fed the chunks and asked for its
\* remainder: the sentences it emits and the remainder
RunDetector(chunks, buffer, acc) ==
  IF chunks = <<>>
    THEN [sentences |-> acc, remainder |-> getRemainder(buffer).text]
  ELSE LET r == addChunk(buffer, Head(chunks))
       IN RunDetector(Tail(chunks), r.buffer, acc \o r.sentences)

OwnTextOnly(tr) ==
  IF tr.pc \in {"stream", "failed"}
    THEN Rebuilds(tr.fullResponse, tr.sentenceQueue, tr.buffer)
  ELSE \/ Rebuilds(tr.fullResponse, tr.sentenceQueue, tr.buffer)
       \/ /\ tr.sentenceQueue # <<>>
          /\ LET n == Len(tr.sentenceQueue)
                 r == tr.sentenceQueue[n]
                 m == Len(tr.fullResponse) - Len(r)
             IN /\ m >= 0
                /\ SubSeq(tr.fullResponse, m + 1, Len(tr.fullResponse)) = r
                /\ Rebuilds(SubSeq(tr.fullResponse, 1, m),
                            SubSeq(tr.sentenceQueue, 1, n - 1), r)

\* C32: each turn has its own detector: the sentences and the remainder of
\* a turn are made of the text of that turn's stream only, whatever another
\* turn (failed, or still running) has left in its buffer.
C32_DetectorPerTurn ==
  \A t \in DOMAIN turns : OwnTextOnly(turns[t])

\* a turn queued a sentence after an earlier turn was left with an
\* unterminated tail in its detector
C32_Witness ==
  \E t1, t2 \in DOMAIN turns :
     /\ t1 < t2
     /\ turns[t1].pc \in {"stream", "failed"}
     /\ hasIncomplete(turns[t1].buffer)
     /\ turns[t2].sentenceQueue # <<>>

\* the worker of turn tr was started and has not terminated, and the
\* handler that alone sets sentenceQueue.complete has returned through its
\* catch without setting it: the worker polls the queue for ever
WorkerOrphaned(tr) ==
  /\ tr.wpc \in {"tts", "sleep"}
  /\ tr.pc = "failed"
  /\ ~tr.complete

\* C33: every worker that was started terminates (emits 'Listening...' and
\* marks the queue processed), whether the stream of its turn ends normally
\* or fails: no worker is left running with a queue that nothing will ever
\* mark complete.
C33_WorkerTerminates ==
  \A t \in DOMAIN turns : ~WorkerOrphaned(turns[t])

\* C34: once call-end has been processed, and until a new call-start, a
\* final transcript delivered late by the former Deepgram connection starts
\* no turn: no step appends a user entry to conversationHistory or starts a
\* handleUserMessage for a session whose call is not active.
C34_NoTurnAfterCallEnd ==
  [][\A s \in Sockets :
        ~session[s].isCallActive =>
           /\ History(s) = session'[s].conversationHistory
                \/ session'[s].conversationHistory[Len(session'[s].conversationHistory)].role # "user"
           /\ \A t \in DOMAIN turns' : t \notin DOMAIN turns => turns'[t].owner # s]_vars

\* the step resumes the call-start handler of call c after its await of
\* connect(): 'Connected', the greeting text and, if prerecorded, its audio
\* are emitted and the greeting is appended to conversationHistory
Resumes(c) ==
  /\ c \in DOMAIN calls
  /\ calls[c].pc = "connect"
  /\ calls'[c].pc \in {"greeting", "done"}

\* C35: when call-end was processed while call-start was awaiting the
\* Deepgram connection, the continuation of call-start emits no 'Connected'
\* status and no greeting and appends nothing to conversationHistory: the
\* handler is never resumed past connect() for a session whose call has
\* ended.
C35_NoGreetingAfterCallEnd ==
  [][\A c \in DOMAIN calls :
        Resumes(c) => session[calls[c].owner].isCallActive]_vars

\* the Deepgram connections of session s that are connecting or open: their
\* Transcript listener can still call handleUserMessage
LiveConnections(s) ==
  {c \in DOMAIN calls : calls[c].owner = s /\ calls[c].conn \in {"connecting", "open"}}

\* C36: a session has at most one live Deepgram connection: a call-start
\* received while a call is active does not leave the previous connection
\* open next to the new one.
C36_OneLiveConnection ==
  \A s \in Sockets : Cardinality(LiveConnections(s)) <= 1

\* the step ends the call-start handler of call c in its catch because the
\* service could not be created or its connect() rejected
StartFails(c) ==
  /\ c \in DOMAIN calls'
  /\ calls'[c].pc = "failed"
  /\ c \notin DOMAIN calls \/ calls[c].pc = "connect"

\* C37: when creating or connecting the Deepgram service fails during
\* call-start, the client is sent 'Failed to start call' and the session is
\* left with isCallActive false and without a transcription service.
C37_FailedStartLeavesSessionIdle ==
  [][\A c \in DOMAIN calls' :
        StartFails(c) =>
           LET s == calls'[c].owner
           IN /\ sock[s] = "open" =>
                   out'[s][Len(out'[s])] = "error:Failed to start call"
              /\ ~session'[s].isCallActive
              /\ session'[s].deepgram = 0]_vars

\* C38: every session of a connected socket whose isCallActive flag is true
\* has an entry in activeSessions, whatever the sequence of connection,
\* call-start, call-end, sweep and disconnect.
C38_ActiveCallIsRegistered ==
  \A s \in Sockets :
     (sock[s] = "open" /\ session[s].isCallActive) => s \in activeSessions

\* ---------------------------------------- DeepgramService.connect, on its own
MaxErrorEvents == 2   \* Error events of one connection

\* error.message of an Error event; the empty one stands for an error
\* without a message
ErrorMessages == {"", "400 Bad Request", "socket hang up"}

\* `Deepgram connection failed: ${error.message || 'Unknown error'}`
FailedMessage(msg) ==
  <<"Deepgram connection failed", IF msg = "" THEN "Unknown error" ELSE msg>>

\* connect() is called on a new service; client.listen.live may throw
ConnectInit ==
  /\ Idle
  /\ lab \in {[op |-> "connect", pc |-> "start", liveThrows |-> b,
               connection |-> "none", openHandler |-> FALSE,
               errorHandler |-> FALSE, timer |-> "off", opened |-> FALSE,
               errors |-> 0, log |-> <<>>, rejection |-> <<>>] : b \in BOOLEAN}

\* connect() up to its await: create the connection, register the
\* listeners, start the race with the 10 s timer; or throw into the catch
ConnStart ==
  /\ lab.op = "connect" /\ lab.pc = "start"
  /\ IF lab.liveThrows
       THEN \E msg \in ErrorMessages :
              lab' = [lab EXCEPT !.pc = "rejected", !.rejection = FailedMessage(msg)]
       ELSE lab' = [lab EXCEPT !.pc = "race", !.connection = "live",
                               !.openHandler = TRUE, !.errorHandler = TRUE,
                               !.timer = "armed"]
  /\ UNCHANGED <<now, env, sock, activeSessions, session, calls, turns, out>>

\* the Error event with the bug of a handler that only logs
ConnErrorEventIgnored(msg) ==
  /\ lab.op = "connect" /\ lab.connection # "none"
  /\ lab.errors < MaxErrorEvents
  /\ lab' = [lab EXCEPT !.errors = @ + 1, !.log = Append(@, "Error")]
  /\ UNCHANGED <<now, env, sock, activeSessions, session, calls, turns, out>>

\* the connection emits Error: errorHandler, registered with once, runs if
\* it is still there; its first statement, this.connection.off, throws when
\* disconnect() has set the connection to null
ConnErrorEvent(msg) ==
  /\ lab.op = "connect" /\ lab.connection # "none"
  /\ lab.errors < MaxErrorEvents
  /\ lab' = [lab EXCEPT
       !.errors = @ + 1,
       !.log = Append(@, "Error"),
       !.errorHandler = FALSE,
       !.openHandler = IF lab.errorHandler /\ lab.connection = "live" THEN FALSE ELSE @,
       !.pc = IF lab.errorHandler /\ lab.connection = "live" /\ lab.pc = "race"
                THEN "rejected" ELSE @,
       !.rejection = IF lab.errorHandler /\ lab.connection = "live" /\ lab.pc = "race"
                       THEN FailedMessage(msg) ELSE @]
  /\ UNCHANGED <<now, env, sock, activeSessions, session, calls, turns, out>>

\* the connection emits Open: openHandler, registered with once, runs if it
\* is still there; it throws at this.connection.off when disconnect() has
\* set the connection to null, and resolves otherwise
ConnOpenEvent ==
  /\ lab.op = "connect" /\ lab.connection # "none"
  /\ ~lab.opened
  /\ lab' = [lab EXCEPT
       !.opened = TRUE,
       !.log = Append(@, "Open"),
       !.openHandler = FALSE,
       !.errorHandler = IF lab.openHandler /\ lab.connection = "live" THEN FALSE ELSE @,
       !.pc = IF lab.openHandler /\ lab.connection = "live" /\ lab.pc = "race"
                THEN "resolved" ELSE @]
  /\ UNCHANGED <<now, env, sock, activeSessions, session, calls, turns, out>>

\* the 10 s timer fires: its reject settles the race if nothing did before
ConnTimeout ==
  /\ lab.op = "connect" /\ lab.timer = "armed"
  /\ lab' = [lab EXCEPT
       !.timer = "fired",
       !.log = Append(@, "Timeout"),
       !.pc = IF lab.pc = "race" THEN "rejected" ELSE @,
       !.rejection = IF lab.pc = "race"
                       THEN FailedMessage("Deepgram connection timeout after 10s")
                       ELSE @]
  /\ UNCHANGED <<now, env, sock, activeSessions, session, calls, turns, out>>

\* the owner of the service calls disconnect(): finish() and forget the
\* connection
ConnDisconnect ==
  /\ lab.op = "connect" /\ lab.connection = "live"
  /\ lab' = [lab EXCEPT !.connection = "null", !.log = Append(@, "Disconnect")]
  /\ UNCHANGED <<now, env, sock, activeSessions, session, calls, turns, out>>

ConnectNext ==
  \/ ConnStart
  \/ \E msg \in ErrorMessages : ConnErrorEvent(msg)
  \/ ConnOpenEvent
  \/ ConnTimeout
  \/ ConnDisconnect

\* the body of connect() runs, and a timer that was set fires
ConnectSpec ==
  ConnectInit /\ [][ConnectNext]_vars /\ WF_vars(ConnStart) /\ WF_vars(ConnTimeout)

\* the Open event came before every Error event and before the timeout
OpenCameFirst ==
  \E k \in DOMAIN lab.log :
     /\ lab.log[k] = "Open"
     /\ \A j \in 1..(k - 1) : lab.log[j] \notin {"Error", "Timeout"}

\* C39: connect() always settles; it resolves only if the Open event occurs
\* before any Error event and before the 10 s timeout, and otherwise it
\* rejects with a 'Deepgram connection failed' error.
C39_ConnectSettles ==
  /\ <>(lab.pc \in {"resolved", "rejected"})
  /\ [](lab.pc = "resolved" => OpenCameFirst)
  /\ [](lab.pc = "rejected" => lab.rejection[1] = "Deepgram connection failed")
  /\ []((lab.pc \in {"resolved", "rejected"} /\ ~OpenCameFirst) => lab.pc = "rejected")

\* connect() rejected on an Error event, and the connection opened afterwards
C39_Witness ==
  /\ lab.op = "connect" /\ lab.pc = "rejected"
  /\ Len(lab.log) >= 2
  /\ lab.log[1] = "Error" /\ lab.log[2] = "Open"
  /\ lab.rejection = FailedMessage("")

====
